---- MODULE Spec2Model ----
(***************************************************************************)
(* A model of the `todo` command-line task tracker: the `task` table, the  *)
(* Task model (task.py) and the subcommands Add, Complete, Reopen, Edit,   *)
(* Delete and List (commands/*.py), and `main` (__main__.py) in front of    *)
(* them.  One action is one invocation of a subcommand's `run` against the *)
(* store, or one call of `main` or of a function tried on its own.         *)
(***************************************************************************)
EXTENDS Integers, Sequences, FiniteSets, TLC

\* ---------------------------------------------------------------- bounds
\* The largest rowid the model lets the store assign (Add is disabled after).
MaxId == 2
\* The largest value of the wall clock, in epoch seconds.
MaxClock == 1
\* The titles a user types; the empty string is a legal argparse value.
Titles == {"", "milk"}
\* The largest integer tried as a raw priority or status column.
MaxRaw == 3
\* The largest number of tasks handed to render_table.
MaxRows == 2
\* The largest number of classes in a drawn list of subcommand handlers.
MaxHandlers == 2

\* ------------------------------------------------------------- task.py
LOW == 0
MEDIUM == 1
HIGH == 2
PENDING == 0
ACTIVE == 1
COMPLETED == 2

Priorities == {LOW, MEDIUM, HIGH}
Statuses == {PENDING, ACTIVE, COMPLETED}

\* The names as str() of the older Priority type gives them (commands.py).
PriorityNameTitleCase(v) ==
    CASE v = LOW -> "Low" [] v = MEDIUM -> "Medium" [] v = HIGH -> "High"

\* Priority(v).name
PriorityName(v) ==
    CASE v = LOW -> "LOW" [] v = MEDIUM -> "MEDIUM" [] v = HIGH -> "HIGH"

\* Status(v).name
StatusName(v) ==
    CASE v = PENDING -> "PENDING" [] v = ACTIVE -> "ACTIVE"
      [] v = COMPLETED -> "COMPLETED"

PriorityNames == {PriorityName(v) : v \in Priorities}
StatusNames == {StatusName(v) : v \in Statuses}

\* Priority[name].value and Status[name].value (Add.from_args, Add.run)
PriorityByName(n) == CHOOSE v \in Priorities : PriorityName(v) = n
StatusByName(n) == CHOOSE v \in Statuses : StatusName(v) = n

\* cursor.fetchone() when no row matches
None == <<>>

\* from_data with an integer outside the enum brought to the nearest member.
from_dataClamped(data) ==
    LET clamp(v) == IF v < 0 THEN 0 ELSE IF v > 2 THEN 2 ELSE v
    IN IF data = None THEN [tag |-> "TypeError"]
       ELSE [tag |-> "Task", id |-> data[1], title |-> data[2],
             priority |-> clamp(data[3]), status |-> clamp(data[4]),
             created_at |-> data[5], updated_at |-> data[6]]

\* Task.from_data(*data): data is a row <<id, title, priority, status,
\* created_at, updated_at>> or None.  Unpacking None raises TypeError; an
\* integer outside the enum raises ValueError (enum lookup by value).
from_data(data) ==
    IF data = None THEN [tag |-> "TypeError"]
    ELSE IF data[3] \notin Priorities \/ data[4] \notin Statuses
         THEN [tag |-> "ValueError"]
         ELSE [tag |-> "Task", id |-> data[1], title |-> data[2],
               priority |-> data[3], status |-> data[4],
               created_at |-> data[5], updated_at |-> data[6]]

\* datetime.strftime("%Y-%m-%dT%H:%M:%S%z") of an instant given in whole
\* epoch seconds: the text names the second.
strftime(ts) == <<"iso8601", ts>>

\* Task.as_dict
as_dict(task) ==
    [id |-> task.id, title |-> task.title,
     priority |-> PriorityName(task.priority),
     status |-> StatusName(task.status),
     created_at |-> strftime(task.created_at),
     updated_at |-> strftime(task.updated_at)]

\* ------------------------------------------------------------ the state
VARIABLES
    tasks,   \* the `task` table: rowid -> [title, priority, status, created_at, updated_at]
    seq,     \* sqlite_sequence: the largest rowid the table ever held
    clock,   \* the wall clock, epoch seconds
    ever,    \* history: every rowid that was ever stored
    last,    \* the last invocation: subcommand, request, the row it named as
             \* it was before, how `run` ended, and the two output streams
    call     \* the last call of `main` or of a function tried on its own:
             \* its name, its arguments and what came of it

vars == <<tasks, seq, clock, ever, last, call>>

\* No call was made yet.
NoCall == [fn |-> "none"]

NoReq == [none |-> TRUE]

Outcome(op, id, req, prior, outcome, stderr, stdout) ==
    [op |-> op, id |-> id, req |-> req, prior |-> prior, outcome |-> outcome,
     stderr |-> stderr, stdout |-> stdout]

\* An unhandled exception leaves `run`: the interpreter prints the traceback
\* on stderr and nothing reaches stdout.
Raised(op, id, req, prior, exc) ==
    Outcome(op, id, req, prior, "raised",
            <<[text |-> "Traceback", what |-> exc]>>, <<>>)

Msg(text, id) == [text |-> text, what |-> id]

\* ------------------------------------------------------- the task table
MaxRowid(t) == IF DOMAIN t = {} THEN 0
               ELSE CHOOSE i \in DOMAIN t : \A j \in DOMAIN t : j <= i

\* A plain INTEGER PRIMARY KEY: one more than the largest rowid present.
NextRowidReused == MaxRowid(tasks) + 1

\* id INTEGER PRIMARY KEY AUTOINCREMENT: one more than the largest rowid the
\* table ever held.
NextRowid == (IF seq > MaxRowid(tasks) THEN seq ELSE MaxRowid(tasks)) + 1

\* INSERT INTO task(title, priority, status): created_at and updated_at take
\* the column default, the current time.
InsertRow(t, id, params, now) ==
    [i \in DOMAIN t \cup {id} |->
        IF i = id
        THEN [title |-> params[1], priority |-> params[2], status |-> params[3],
              created_at |-> now, updated_at |-> now]
        ELSE t[i]]

\* SELECT id, title, priority, status, created_at, updated_at FROM task
\* WHERE id = ?   followed by cursor.fetchone()
SelectById(t, id) ==
    IF id \in DOMAIN t
    THEN <<id, t[id].title, t[id].priority, t[id].status,
           t[id].created_at, t[id].updated_at>>
    ELSE None

TypeOK ==
    /\ DOMAIN tasks \subseteq 1..MaxId
    /\ \A i \in DOMAIN tasks :
          /\ tasks[i].title \in Titles
          /\ tasks[i].priority \in Priorities
          /\ tasks[i].status \in Statuses
          /\ tasks[i].created_at \in 0..MaxClock
          /\ tasks[i].updated_at \in 0..MaxClock
    /\ seq \in 0..MaxId
    /\ clock \in 0..MaxClock
    /\ ever \subseteq 1..MaxId

Init ==
    /\ tasks = <<>>
    /\ seq = 0
    /\ clock = 0
    /\ ever = {}
    /\ last = Outcome("none", 0, NoReq, None, "returned", <<>>, <<>>)
    /\ call = NoCall

\* Time passes between invocations; the wall clock does not step backwards.
Tick ==
    /\ clock < MaxClock
    /\ clock' = clock + 1
    /\ UNCHANGED <<tasks, seq, ever, last>>

\* ------------------------------------------------------ commands/add.py
\* The values Add.run binds to the INSERT, with priority and status swapped.
AddParamsSwapped(req) ==
    <<req.title, StatusByName(req.status), PriorityByName(req.priority)>>

\* The values Add.run binds to the INSERT: title, priority.value, status.value
AddParams(req) ==
    <<req.title, PriorityByName(req.priority), StatusByName(req.status)>>

\* Add.run
Add(req) ==
    /\ seq < MaxId
    /\ LET id == NextRowid
           t2 == InsertRow(tasks, id, AddParams(req), clock)
           task == from_data(SelectById(t2, id))
       IN /\ tasks' = t2
          /\ seq' = id
          /\ ever' = ever \cup {id}
          /\ last' = IF task.tag = "Task"
                     THEN Outcome("add", id, req, None, "returned",
                                  <<Msg("Task created successfully!", 0)>>,
                                  <<as_dict(task)>>)
                     ELSE Raised("add", id, req, None, task.tag)
    /\ UNCHANGED clock

AddRequests ==
    [title : Titles, priority : PriorityNames, status : StatusNames]

\* The ids a user may name: every id the store can hold and one it never holds.
IdArgs == 1..(MaxId + 1)

\* ------------------------------------------------- commands/complete.py
\* The UPDATE with the time taken from a naive UTC clock read as local time:
\* the stored instant is off by the zone offset (here one second behind).
CompleteUpdateNaiveUtc(t, id, now) ==
    [i \in DOMAIN t |->
        IF i = id
        THEN [t[i] EXCEPT !.status = COMPLETED,
                          !.updated_at = IF now > 0 THEN now - 1 ELSE 0]
        ELSE t[i]]

\* The UPDATE guarded by the status, as a strict transition table would have
\* it: only a PENDING task is completed and stamped.
CompleteUpdateOpenOnly(t, id, now) ==
    [i \in DOMAIN t |->
        IF i = id /\ t[i].status = PENDING
        THEN [t[i] EXCEPT !.status = COMPLETED, !.updated_at = now]
        ELSE t[i]]

\* The UPDATE without its WHERE clause: every row is completed and stamped.
CompleteUpdateEveryRow(t, id, now) ==
    [i \in DOMAIN t |->
        [t[i] EXCEPT !.status = COMPLETED, !.updated_at = now]]

\* UPDATE task SET status = COMPLETED, updated_at = now WHERE id = ?
\* (the id column's integer affinity converts the text argument)
CompleteUpdate(t, id, now) ==
    [i \in DOMAIN t |->
        IF i = id
        THEN [t[i] EXCEPT !.status = COMPLETED, !.updated_at = now]
        ELSE t[i]]

\* Complete.run: the UPDATE, then the SELECT whose result is unpacked into
\* Task.from_data without a test for None.
Complete(id) ==
    /\ LET t2 == CompleteUpdate(tasks, id, clock)
           task == from_data(SelectById(t2, id))
       IN /\ tasks' = t2
          /\ last' = IF task.tag = "Task"
                     THEN Outcome("complete", id, NoReq, SelectById(tasks, id),
                                  "returned",
                                  <<Msg("Completed task with ID", id)>>,
                                  <<as_dict(task)>>)
                     ELSE Raised("complete", id, NoReq, SelectById(tasks, id),
                                 task.tag)
    /\ UNCHANGED <<seq, clock, ever>>

\* --------------------------------------------------- commands/reopen.py
\* Reopen.run: print("Not implemented yet!")
Reopen(id) ==
    /\ last' = Outcome("reopen", id, NoReq, SelectById(tasks, id), "returned",
                       <<>>, <<Msg("Not implemented yet!", 0)>>)
    /\ UNCHANGED <<tasks, seq, clock, ever>>

\* --------------------------------------------------- commands/delete.py
\* DELETE FROM task without the WHERE clause.
DeleteRowAll(t, id) == [i \in {} |-> t[i]]

\* DELETE FROM task WHERE id = ?
DeleteRow(t, id) == [i \in DOMAIN t \ {id} |-> t[i]]

\* Delete without the fetch before it: the statement runs and success is
\* reported whatever the id.
DeleteUnchecked(id) ==
    /\ tasks' = DeleteRow(tasks, id)
    /\ last' = Outcome("delete", id, NoReq, SelectById(tasks, id), "returned",
                       <<Msg("Deleted task with ID", id)>>,
                       <<Msg("Task removed successfully!", id)>>)
    /\ UNCHANGED <<seq, clock, ever>>

\* Delete.run
Delete(id) ==
    /\ LET data == SelectById(tasks, id)
           task == from_data(data)
       IN IF data = None
          THEN /\ last' = Outcome("delete", id, NoReq, data, "returned",
                                  <<Msg("No task with ID found", id)>>, <<>>)
               /\ UNCHANGED tasks
          ELSE IF task.tag # "Task"
          THEN /\ last' = Raised("delete", id, NoReq, data, task.tag)
               /\ UNCHANGED tasks
          ELSE /\ tasks' = DeleteRow(tasks, id)
               /\ last' = Outcome("delete", id, NoReq, data, "returned",
                                  <<Msg("Deleted task with ID", id)>>,
                                  <<as_dict(task)>>)
    /\ UNCHANGED <<seq, clock, ever>>

\* ----------------------------------------------------- commands/edit.py
\* An optional argument: <<>> when the flag is absent, <<v>> when given.
Optional(S) == {<<>>} \cup {<<v>> : v \in S}

\* The requests tried: every request that supplies at most one field.
EditRequests ==
    {r \in [title : Optional(Titles), priority : Optional(Priorities),
            status : Optional(Statuses)] :
        Cardinality({f \in {"title", "priority", "status"} : r[f] # <<>>}) <= 1}

\* update(id, fields...): only the fields supplied change; updated_at is
\* always refreshed to now.
EditUpdate(t, id, req, now) ==
    [i \in DOMAIN t |->
        IF i = id
        THEN [title |-> IF req.title = <<>> THEN t[i].title ELSE req.title[1],
              priority |-> IF req.priority = <<>> THEN t[i].priority
                           ELSE req.priority[1],
              status |-> IF req.status = <<>> THEN t[i].status
                         ELSE req.status[1],
              created_at |-> t[i].created_at,
              updated_at |-> now]
        ELSE t[i]]

\* Edit.run: an empty title is a validation failure, an absent id is
\* reported as not found; neither mutates the store.  (The request is not
\* kept in `last`: the row before and the row after tell what changed.)
Edit(id, req) ==
    /\ IF req.title = <<"">>
       THEN /\ last' = Outcome("edit", id, NoReq, SelectById(tasks, id),
                               "returned",
                               <<Msg("ValidationError: empty title", id)>>, <<>>)
            /\ UNCHANGED tasks
       ELSE IF id \notin DOMAIN tasks
       THEN /\ last' = Outcome("edit", id, NoReq, SelectById(tasks, id),
                               "returned",
                               <<Msg("No task with ID found", id)>>, <<>>)
            /\ UNCHANGED tasks
       ELSE LET t2 == EditUpdate(tasks, id, req, clock)
            IN /\ tasks' = t2
               /\ last' = Outcome("edit", id, NoReq, SelectById(tasks, id),
                                  "returned",
                                  <<Msg("Updated task with ID", id)>>,
                                  <<as_dict(from_data(SelectById(t2, id)))>>)
    /\ UNCHANGED <<seq, clock, ever>>

\* ----------------------------------------------------- commands/list.py
\* SortBy, by the column name `sort_by.name.lower()` puts in the ORDER BY
SortKeys == {"id", "priority", "status", "created_at"}

\* Every List value `run` can be called on.
ListRequests ==
    [sort_by : SortKeys, reverse : BOOLEAN, as_json : BOOLEAN,
     show_all : BOOLEAN]

\* The List values the command line builds.  --sort-by is declared with
\* type=SortBy, and SortBy(text) raises for every text, so argparse rejects
\* each use of the flag; what reaches `run` is the default, SortBy.PRIORITY.
CliListRequests == {r \in ListRequests : r.sort_by = "priority"}

\* The WHERE clause with the flag read the wrong way round.
ListWhereInverted(show_all, row) == (~show_all) \/ row.status # COMPLETED

\* WHERE status != COMPLETED, present only without --all
ListWhere(show_all, row) == show_all \/ row.status # COMPLETED

\* The CASE expression of the ORDER BY
TieRank(row) ==
    IF row.status = COMPLETED THEN 3
    ELSE IF row.priority = HIGH /\ row.status # COMPLETED THEN 1
    ELSE 2

\* The column the primary ORDER BY term names
SortColumn(sort_by, id, row) ==
    CASE sort_by = "id" -> id
      [] sort_by = "priority" -> row.priority
      [] sort_by = "status" -> row.status
      [] sort_by = "created_at" -> row.created_at

\* The four ORDER BY terms of a row: sort_by, CASE, priority, status
OrderTerms(sort_by, id, row) ==
    <<SortColumn(sort_by, id, row), TieRank(row), row.priority, row.status>>

\* a precedes-or-ties b on the term list, every term in ascending order
LexLeq(a, b) ==
    \/ a = b
    \/ \E k \in 1..Len(a) :
          /\ a[k] < b[k]
          /\ \A j \in 1..(k - 1) : a[j] = b[j]

\* The direction taken from --reverse as it is, for every sort key.
DescendingAsGiven(req) == req.reverse

\* `self.reverse = not self.reverse` when sorting by priority; the result is
\* the direction every ORDER BY term gets.
Descending(req) ==
    IF req.sort_by = "priority" THEN ~req.reverse ELSE req.reverse

\* The arrangements of the ids in S as a sequence
Arrangements(S) ==
    {s \in [1..Cardinality(S) -> S] :
        \A i, j \in 1..Cardinality(S) : i # j => s[i] # s[j]}

\* cursor.fetchall(): every order of the selected rows that the ORDER BY
\* allows (rows that tie on all four terms come in either order).
FetchAll(t, req) ==
    LET sel == {i \in DOMAIN t : ListWhere(req.show_all, t[i])}
        key(i) == OrderTerms(req.sort_by, i, t[i])
    IN {s \in Arrangements(sel) :
          \A a, b \in 1..Cardinality(sel) :
             a < b => IF Descending(req)
                      THEN LexLeq(key(s[b]), key(s[a]))
                      ELSE LexLeq(key(s[a]), key(s[b]))}

\* tasks = [Task.from_data(*data) for data in cursor.fetchall()]
ListTasks(t, ids) == [k \in 1..Len(ids) |-> from_data(SelectById(t, ids[k]))]

\* List that clears the completed rows away instead of filtering them out.
ListPurging(req) ==
    /\ \E ids \in FetchAll(tasks, req) :
          last' = Outcome("list", 0, req, None, "returned", <<>>,
                          [k \in 1..Len(ids) |-> as_dict(ListTasks(tasks, ids)[k])])
    /\ tasks' = [i \in {j \in DOMAIN tasks : ListWhere(req.show_all, tasks[j])}
                    |-> tasks[i]]
    /\ UNCHANGED <<seq, clock, ever>>

\* List.run: the SELECT, then the rows as JSON or as the table's body.
List(req) ==
    /\ \E ids \in FetchAll(tasks, req) :
          last' = Outcome("list", 0, req, None, "returned", <<>>,
                          [k \in 1..Len(ids) |-> as_dict(ListTasks(tasks, ids)[k])])
    /\ UNCHANGED <<tasks, seq, clock, ever>>

Next ==
    \/ Tick /\ UNCHANGED call
    \/ \E req \in AddRequests : Add(req) /\ UNCHANGED call
    \/ \E id \in IdArgs : Complete(id) /\ UNCHANGED call
    \/ \E id \in IdArgs : Reopen(id) /\ UNCHANGED call
    \/ \E id \in IdArgs : Delete(id) /\ UNCHANGED call
    \/ \E id \in IdArgs : \E req \in EditRequests :
          Edit(id, req) /\ UNCHANGED call
    \/ \E req \in CliListRequests : List(req) /\ UNCHANGED call

\* The program: one invocation after another against the same store.
Spec == Init /\ [][Next]_vars

\* ------------------------------------------------ List.run as a unit
\* The rows List.run is tried on: any valid priority, status and creation
\* time, last touched at the current time.
ListRows ==
    [title : {"milk"}, priority : Priorities, status : Statuses,
     created_at : 0..MaxClock, updated_at : {MaxClock}]

\* The stores List.run is tried on: rowids are handed out in the order of
\* creation, so creation times do not decrease with the rowid.
ListStores ==
    {t \in UNION {[D -> ListRows] : D \in SUBSET (1..MaxId)} :
        \A i, j \in DOMAIN t : i < j => t[i].created_at <= t[j].created_at}

InitList ==
    /\ tasks \in ListStores
    /\ seq = MaxRowid(tasks)
    /\ clock = MaxClock
    /\ ever = DOMAIN tasks
    /\ last = Outcome("none", 0, NoReq, None, "returned", <<>>, <<>>)
    /\ call = NoCall

\* One call of List.run on the store.  (A call leaves the store as it found
\* it, so a second call would start where the first one did.)
NextList ==
    /\ last.op = "none"
    /\ \E req \in ListRequests : List(req)
    /\ UNCHANGED call

\* List.run on every store, with every sort key, direction, format and filter.
SpecList == InitList /\ [][NextList]_vars

\* ------------------------------------------------- args.py, __main__.py
\* ExitCode
SUCCESS == 0
FAILURE == 1
USAGE == 2

\* The status argparse ends the process with when parse_args rejects argv.
ArgparseErrorStatus == 2
\* The status the interpreter ends with when an exception leaves main.
UncaughtExceptionStatus == 1

\* subcommand_registry.keys()
subcommand_registry == {"add", "complete", "delete", "edit", "list", "reopen"}

\* The tokens that start with "-": argparse reads them as option strings.
OptionStrings ==
    {"-v", "-vv", "--verbose", "-q", "-qq", "--quiet", "--priority",
     "--status", "--title", "--sort-by", "--reverse", "--json", "--all",
     "--bogus"}

\* int(text), where it succeeds
IntText == [t \in {"1", "2", "3", "9"} |->
              CASE t = "1" -> 1 [] t = "2" -> 2 [] t = "3" -> 3 [] t = "9" -> 9]

\* The id column's integer affinity on a text argument: numeric text is
\* compared as the integer, any other text equals no rowid (0 is none).
IdAffinity(text) == IF text \in DOMAIN IntText THEN IntText[text] ELSE 0

\* How often action="count" flags of the main parser occur in a token
FlagCount(tok, short, double, long) ==
    IF tok = double THEN 2 ELSE IF tok \in {short, long} THEN 1 ELSE 0

MainFlags == {"-v", "-vv", "--verbose", "-q", "-qq", "--quiet"}

\* The number of main-parser flags argv starts with
RECURSIVE Leading(_)
Leading(argv) ==
    IF argv # <<>> /\ Head(argv) \in MainFlags
    THEN 1 + Leading(Tail(argv)) ELSE 0

RECURSIVE SumCount(_, _, _, _)
SumCount(argv, short, double, long) ==
    IF argv = <<>> THEN 0
    ELSE FlagCount(Head(argv), short, double, long)
         + SumCount(Tail(argv), short, double, long)

\* The options of each subcommand's parser that take a value
ValueOptions(name) ==
    CASE name = "add" -> {"--priority", "--status"}
      [] name = "edit" -> {"--title", "--priority", "--status"}
      [] name = "list" -> {"--sort-by"}
      [] OTHER -> {}

\* The store_true options of each subcommand's parser
FlagOptions(name) ==
    CASE name = "list" -> {"--reverse", "--json", "--all"}
      [] OTHER -> {}

\* A subcommand parser's pass over its tokens: positionals in order, the
\* value of each value option (the last one given wins), the flags seen.
RECURSIVE Scan(_, _, _)
Scan(name, toks, acc) ==
    IF toks = <<>> THEN acc
    ELSE LET t == Head(toks)
         IN IF t \in ValueOptions(name)
            THEN IF Len(toks) < 2 \/ toks[2] \in OptionStrings
                 THEN [acc EXCEPT !.error = TRUE]
                 ELSE Scan(name, Tail(Tail(toks)),
                           [acc EXCEPT !.opts = (t :> toks[2]) @@ @])
            ELSE IF t \in FlagOptions(name)
            THEN Scan(name, Tail(toks), [acc EXCEPT !.flags = @ \cup {t}])
            ELSE IF t \in OptionStrings
            THEN [acc EXCEPT !.error = TRUE]
            ELSE Scan(name, Tail(toks), [acc EXCEPT !.pos = Append(@, t)])

Get(opts, k, default) == IF k \in DOMAIN opts THEN opts[k] ELSE default

UsageError == [error |-> TRUE]

Parsed(verbose, quiet, name, args) ==
    [error |-> FALSE, verbose |-> verbose, quiet |-> quiet,
     subcommand |-> name, args |-> args]

\* An optional field of an edit: absent, or the text given
EditField(opts, k) == IF k \in DOMAIN opts THEN <<opts[k]>> ELSE <<>>

\* The field with the enum member's value in place of its name
EditPriority(f) == IF f = <<>> THEN f ELSE <<PriorityByName(f[1])>>
EditStatus(f) == IF f = <<>> THEN f ELSE <<StatusByName(f[1])>>

\* The subcommand parser's result and from_args on it
ParseSubcommand(verbose, quiet, name, toks) ==
    LET a == Scan(name, toks, [pos |-> <<>>, opts |-> <<>>, flags |-> {},
                               error |-> FALSE])
    IN IF a.error THEN UsageError
       ELSE CASE name = "add" ->
                 IF \/ Len(a.pos) # 1
                    \/ Get(a.opts, "--priority", "LOW") \notin PriorityNames
                    \/ Get(a.opts, "--status", "PENDING") \notin StatusNames
                 THEN UsageError
                 ELSE Parsed(verbose, quiet, name,
                             [title |-> a.pos[1],
                              priority |-> Get(a.opts, "--priority", "LOW"),
                              status |-> Get(a.opts, "--status", "PENDING")])
              [] name \in {"complete", "reopen"} ->
                 IF Len(a.pos) # 1 THEN UsageError
                 ELSE Parsed(verbose, quiet, name, [id |-> a.pos[1]])
              [] name = "delete" ->
                 IF Len(a.pos) # 1 \/ a.pos[1] \notin DOMAIN IntText
                 THEN UsageError
                 ELSE Parsed(verbose, quiet, name, [id |-> IntText[a.pos[1]]])
              [] name = "edit" ->
                 IF \/ Len(a.pos) # 1 \/ a.pos[1] \notin DOMAIN IntText
                    \/ Get(a.opts, "--priority", "LOW") \notin PriorityNames
                    \/ Get(a.opts, "--status", "PENDING") \notin StatusNames
                 THEN UsageError
                 ELSE Parsed(verbose, quiet, name,
                        [id |-> IntText[a.pos[1]],
                         req |-> [title |-> EditField(a.opts, "--title"),
                                  priority |-> EditPriority(
                                      EditField(a.opts, "--priority")),
                                  status |-> EditStatus(
                                      EditField(a.opts, "--status"))]])
              [] name = "list" ->
                 \* type=SortBy: SortBy(text) raises ValueError for every
                 \* text, which argparse reports as an invalid value.
                 IF Len(a.pos) # 0 \/ "--sort-by" \in DOMAIN a.opts
                 THEN UsageError
                 ELSE Parsed(verbose, quiet, name,
                             [sort_by |-> "priority",
                              reverse |-> "--reverse" \in a.flags,
                              as_json |-> "--json" \in a.flags,
                              show_all |-> "--all" \in a.flags])

\* parser.parse_args(argv): the main parser's flags, then the required
\* subcommand name, then that subcommand's parser on the rest.
parse_args(argv) ==
    LET k == Leading(argv)
        flags == SubSeq(argv, 1, k)
        rest == SubSeq(argv, k + 1, Len(argv))
    IN IF rest = <<>> \/ Head(rest) \notin subcommand_registry
       THEN UsageError
       ELSE ParseSubcommand(SumCount(flags, "-v", "-vv", "--verbose"),
                            SumCount(flags, "-q", "-qq", "--quiet"),
                            Head(rest), Tail(rest))

\* Verbosity.from_args
VerbosityFromArgs(verbose, quiet) ==
    IF quiet = 1 THEN "QUIET"
    ELSE IF quiet > 1 THEN "SILENT"
    ELSE IF verbose = 0 THEN "DEFAULT"
    ELSE IF verbose = 1 THEN "VERBOSE"
    ELSE "EXTRA_VERBOSE"

\* The values of TODO_LOG tried, as directive.upper() has them
Directives == {"WARNING", "OFF", "BOGUS"}

\* level_from_directive
level_from_directive(directive) ==
    CASE directive = "OFF" -> "None"
      [] directive \in {"DEBUG", "INFO", "WARNING", "WARN", "ERROR",
                        "CRITICAL", "FATAL"} -> directive
      [] OTHER -> "ValueError"

\* The logging set-up of main raises: only the DEFAULT verbosity reads the
\* directive.
LoggingRaises(p, directive) ==
    /\ VerbosityFromArgs(p.verbose, p.quiet) = "DEFAULT"
    /\ level_from_directive(directive) = "ValueError"

\* main with the connection opened first and the arguments parsed after it.
MainStagesConnectFirst(p, directive) ==
    IF p.error THEN <<"connect", "parse_args">>
    ELSE IF LoggingRaises(p, directive)
    THEN <<"connect", "parse_args", "setup_logger">>
    ELSE <<"connect", "parse_args", "setup_logger", "run">>

\* The stages of main that are entered, in order: parse_args ends the
\* process on a usage error, an exception ends it where it is raised.
MainStages(p, directive) ==
    IF p.error THEN <<"parse_args">>
    ELSE IF LoggingRaises(p, directive)
    THEN <<"parse_args", "setup_logger">>
    ELSE <<"parse_args", "setup_logger", "connect", "run">>

MainCall(argv, directive, stages, exit) ==
    [fn |-> "main", argv |-> argv, directive |-> directive,
     stages |-> stages, exit |-> exit]

\* subcommand_registry[args.subcommand].from_args(args).run(ctx)
Dispatch(p) ==
    \/ p.subcommand = "add" /\ Add(p.args)
    \/ p.subcommand = "complete" /\ Complete(IdAffinity(p.args.id))
    \/ p.subcommand = "reopen" /\ Reopen(IdAffinity(p.args.id))
    \/ p.subcommand = "delete" /\ Delete(p.args.id)
    \/ p.subcommand = "edit" /\ Edit(p.args.id, p.args.req)
    \/ p.subcommand = "list" /\ List(p.args)

\* main(argv), with sys.exit around it: the process's exit status is
\* argparse's on a usage error, the interpreter's when an exception leaves
\* main, and otherwise the ExitCode.SUCCESS main returns.
Main(argv, directive) ==
    LET p == parse_args(argv)
        stages == MainStages(p, directive)
    IN IF p.error
       THEN /\ call' = MainCall(argv, directive, stages, ArgparseErrorStatus)
            /\ UNCHANGED <<tasks, seq, clock, ever, last>>
       ELSE IF LoggingRaises(p, directive)
       THEN /\ call' = MainCall(argv, directive, stages,
                                UncaughtExceptionStatus)
            /\ UNCHANGED <<tasks, seq, clock, ever, last>>
       ELSE /\ Dispatch(p)
            /\ call' = MainCall(argv, directive, stages,
                                IF last'.outcome = "raised"
                                THEN UncaughtExceptionStatus ELSE SUCCESS)

\* The command lines tried
Argvs ==
    {<<>>, <<"frobnicate">>, <<"--bogus", "list">>,
     <<"add">>, <<"add", "milk">>, <<"add", "">>,
     <<"add", "milk", "--priority", "HIGH">>,
     <<"add", "milk", "--priority", "urgent">>,
     <<"add", "milk", "--status", "COMPLETED">>,
     <<"add", "milk", "--priority">>, <<"-v", "add", "milk">>,
     <<"complete", "1">>, <<"complete", "9">>, <<"complete", "x">>,
     <<"complete">>,
     <<"reopen", "1">>, <<"reopen">>,
     <<"delete", "1">>, <<"delete", "2">>, <<"delete", "9">>,
     <<"delete", "x">>, <<"delete", "1", "2">>, <<"-qq", "delete", "1">>,
     <<"edit", "1", "--title", "milk">>, <<"edit", "9", "--priority", "HIGH">>,
     <<"edit", "1", "--title", "">>, <<"edit">>,
     <<"list">>, <<"list", "--all">>, <<"list", "--json", "--reverse">>,
     <<"list", "--sort-by", "priority">>, <<"list", "-v">>,
     <<"-q", "list">>}

\* One call of main on the store.
NextMain ==
    /\ call.fn = "none"
    /\ \E argv \in Argvs : \E directive \in Directives : Main(argv, directive)

\* main on every store, with every command line and every directive.
SpecMain == InitList /\ [][NextMain]_vars

\* ------------------------------------------- the Task model as a unit
\* The integers tried as a raw priority or status
RawInts == (0 - 1)..MaxRaw

\* The raw rows Task.from_data is tried on
RawRows ==
    {<<id, title, p, s, 0, c>> :
        id \in 1..MaxId, title \in Titles, p \in RawInts, s \in RawInts,
        c \in 0..MaxClock}

InitTask ==
    /\ tasks = <<>>
    /\ seq = 0
    /\ clock = 0
    /\ ever = {}
    /\ last = Outcome("none", 0, NoReq, None, "returned", <<>>, <<>>)
    /\ call \in {[fn |-> "row", data |-> d] : d \in RawRows}

\* Task.from_data(*data)
FromData ==
    /\ call.fn = "row"
    /\ call' = [fn |-> "from_data", data |-> call.data,
                result |-> from_data(call.data)]
    /\ UNCHANGED <<tasks, seq, clock, ever, last>>

\* task.as_dict() on the task constructed
AsDict ==
    /\ call.fn = "from_data"
    /\ call.result.tag = "Task"
    /\ call' = [fn |-> "as_dict", task |-> call.result,
                result |-> as_dict(call.result)]
    /\ UNCHANGED <<tasks, seq, clock, ever, last>>

\* Add.from_args on the names as_dict wrote: Priority[name], Status[name]
FromArgs ==
    /\ call.fn = "as_dict"
    /\ call' = [fn |-> "from_args", task |-> call.task,
                names |-> [priority |-> call.result.priority,
                           status |-> call.result.status],
                result |-> [priority |-> PriorityByName(call.result.priority),
                            status |-> StatusByName(call.result.status)]]
    /\ UNCHANGED <<tasks, seq, clock, ever, last>>

NextTask == FromData \/ AsDict \/ FromArgs

\* Task.from_data on every raw row, as_dict on every task, and the names back
\* through from_args.
SpecTask == InitTask /\ [][NextTask]_vars

\* ---------------------------------------------------------- pyproject.py
\* The mappings with keys among K and values among V
Mappings(K, V) == UNION {[D -> V] : D \in SUBSET K}

\* The [project] tables tried
ProjectTables ==
    Mappings({"name", "version", "requires-python"}, {"foo", "0.1.0"})

\* The decoded pyproject.toml documents tried: with or without [project],
\* with or without another table beside it
PyprojectData ==
    {<<>>, [k \in {"tool"} |-> <<>>]}
    \cup {[k \in {"project"} |-> t] : t \in ProjectTables}
    \cup {[k \in {"project", "tool"} |-> IF k = "project" THEN t ELSE <<>>] :
             t \in ProjectTables}

\* The environments tried
Environments ==
    Mappings({"PYPROJECT_NAME", "PYPROJECT_VERSION", "HOME"}, {"old"})

\* env[key] = value
SetItem(env, key, value) == (key :> value) @@ env

\* The update into a fresh mapping that holds the two keys only.
pyproject_update_envFresh(data, env) ==
    IF "project" \notin DOMAIN data
    THEN [env |-> env, raised |-> "KeyError"]
    ELSE LET project == data["project"]
         IN IF "name" \notin DOMAIN project
            THEN [env |-> env, raised |-> "KeyError"]
            ELSE LET env1 == SetItem(<<>>, "PYPROJECT_NAME", project["name"])
                 IN IF "version" \notin DOMAIN project
                    THEN [env |-> env1, raised |-> "KeyError"]
                    ELSE [env |-> SetItem(env1, "PYPROJECT_VERSION",
                                          project["version"]),
                          raised |-> "none"]

\* pyproject_update_env(data, env): the three statements in order; a missing
\* key raises KeyError at the statement that reads it, and what was assigned
\* before stays assigned.
pyproject_update_env(data, env) ==
    IF "project" \notin DOMAIN data
    THEN [env |-> env, raised |-> "KeyError"]
    ELSE LET project == data["project"]
         IN IF "name" \notin DOMAIN project
            THEN [env |-> env, raised |-> "KeyError"]
            ELSE LET env1 == SetItem(env, "PYPROJECT_NAME", project["name"])
                 IN IF "version" \notin DOMAIN project
                    THEN [env |-> env1, raised |-> "KeyError"]
                    ELSE [env |-> SetItem(env1, "PYPROJECT_VERSION",
                                          project["version"]),
                          raised |-> "none"]

InitPyproject ==
    /\ tasks = <<>>
    /\ seq = 0
    /\ clock = 0
    /\ ever = {}
    /\ last = Outcome("none", 0, NoReq, None, "returned", <<>>, <<>>)
    /\ call \in {[fn |-> "pyproject", data |-> d, env |-> e] :
                    d \in PyprojectData, e \in Environments}

\* One call of pyproject_update_env(data, env)
UpdateEnv ==
    /\ call.fn = "pyproject"
    /\ call' = [fn |-> "pyproject_update_env", data |-> call.data,
                env |-> call.env,
                result |-> pyproject_update_env(call.data, call.env)]
    /\ UNCHANGED <<tasks, seq, clock, ever, last>>

\* pyproject_update_env on every document and every environment tried.
SpecPyproject == InitPyproject /\ [][UpdateEnv]_vars

\* ------------------------------------------ commands/list.py render_table
\* max(...) of a non-empty set of integers
Max(S) == CHOOSE m \in S : \A n \in S : n <= m

\* ch * n
RECURSIVE Repeat(_, _)
Repeat(ch, n) == IF n <= 0 THEN "" ELSE ch \o Repeat(ch, n - 1)

\* str.ljust(width)
ljust(text, width) == text \o Repeat(" ", width - Len(text))

\* str.center(width): the odd space goes to the left when the width is odd
center(text, width) ==
    LET marg == width - Len(text)
        left == (marg \div 2) + (IF marg % 2 = 1 /\ width % 2 = 1 THEN 1 ELSE 0)
    IN IF marg <= 0 THEN text
       ELSE Repeat(" ", left) \o text \o Repeat(" ", marg - left)

\* strftime("%Y-%m-%dT%H:%M:%S%z") as text, for the first seconds of the
\* epoch in UTC
StrftimeText(ts) == "1970-01-01T00:00:0" \o ToString(ts) \o "+0000"

\* width_id = max(2, len(str(len(tasks))))
width_id(ts) == Max({2, Len(ToString(Len(ts)))})
\* width_title = max(5, 5, *[len(t.title) for t in tasks])
width_title(ts) == Max({5} \cup {Len(ts[k].title) : k \in 1..Len(ts)})
\* width_priority = max(8, 8, *[len(t.priority.name) for t in tasks])
width_priority(ts) ==
    Max({8} \cup {Len(PriorityName(ts[k].priority)) : k \in 1..Len(ts)})
\* width_status = max(6, 6, *[len(t.status.name) for t in tasks])
width_status(ts) ==
    Max({6} \cup {Len(StatusName(ts[k].status)) : k \in 1..Len(ts)})
\* width_created_at = 24 if len(tasks) > 0 else 10
width_created_at(ts) == IF Len(ts) > 0 THEN 24 ELSE 10
\* width_updated_at = 24 if len(tasks) > 0 else 10
width_updated_at(ts) == IF Len(ts) > 0 THEN 24 ELSE 10

\* A border line; "+" stands for the corner or joint character and "-" for
\* the horizontal one, each a single character.
Border(ts) ==
    "+" \o Repeat("-", width_id(ts) + 2)
    \o "+" \o Repeat("-", width_title(ts) + 2)
    \o "+" \o Repeat("-", width_priority(ts) + 2)
    \o "+" \o Repeat("-", width_status(ts) + 2)
    \o "+" \o Repeat("-", width_created_at(ts) + 2)
    \o "+" \o Repeat("-", width_updated_at(ts) + 2)
    \o "+"

\* A line of cells; "|" stands for the vertical character.
CellLine(ts, id, title, priority, status, created_at, updated_at) ==
    "| " \o center(id, width_id(ts))
    \o " | " \o ljust(title, width_title(ts))
    \o " | " \o ljust(priority, width_priority(ts))
    \o " | " \o ljust(status, width_status(ts))
    \o " | " \o ljust(created_at, width_created_at(ts))
    \o " | " \o ljust(updated_at, width_updated_at(ts))
    \o " |"

\* render_table(tasks): top border, header, separator, one line per task,
\* bottom border.
render_table(ts) ==
    <<Border(ts),
      CellLine(ts, "ID", "Title", "Priority", "Status", "Created at",
               "Updated at"),
      Border(ts)>>
    \o [k \in 1..Len(ts) |->
          CellLine(ts, ToString(ts[k].id), ts[k].title,
                   PriorityName(ts[k].priority), StatusName(ts[k].status),
                   StrftimeText(ts[k].created_at),
                   StrftimeText(ts[k].updated_at))]
    \o <<Border(ts)>>

\* The tasks render_table is tried on: ids of one, two and three digits,
\* titles shorter and longer than the header.
RenderTasks ==
    {from_data(<<id, title, p, s, 0, c>>) :
        id \in {1, 10, 100}, title \in {"", "milk", "water the plants"},
        p \in {LOW, HIGH}, s \in {PENDING, COMPLETED}, c \in 0..MaxClock}

\* The lists of tasks tried: up to MaxRows tasks, no id twice.
RenderLists ==
    {ts \in UNION {[1..n -> RenderTasks] : n \in 0..MaxRows} :
        \A j, k \in 1..Len(ts) : j # k => ts[j].id # ts[k].id}

InitRender ==
    /\ tasks = <<>>
    /\ seq = 0
    /\ clock = 0
    /\ ever = {}
    /\ last = Outcome("none", 0, NoReq, None, "returned", <<>>, <<>>)
    /\ call \in {[fn |-> "tasks", tasks |-> ts] : ts \in RenderLists}

\* One call of render_table(tasks)
Render ==
    /\ call.fn = "tasks"
    /\ call' = [fn |-> "render_table", tasks |-> call.tasks,
                result |-> render_table(call.tasks)]
    /\ UNCHANGED <<tasks, seq, clock, ever, last>>

\* render_table on every list of tasks tried.
SpecRender == InitRender /\ [][Render]_vars

\* --------------------------------------------------------- subcommand.py
\* string.ascii_uppercase and the lowercase letters in the same order; a
\* name is written here as the sequence of its characters.
AsciiUppercase ==
    <<"A", "B", "C", "D", "E", "F", "G", "H", "I", "J", "K", "L", "M",
      "N", "O", "P", "Q", "R", "S", "T", "U", "V", "W", "X", "Y", "Z">>
AsciiLowercase ==
    <<"a", "b", "c", "d", "e", "f", "g", "h", "i", "j", "k", "l", "m",
      "n", "o", "p", "q", "r", "s", "t", "u", "v", "w", "x", "y", "z">>

\* c in string.ascii_uppercase
IsAsciiUppercase(c) == \E i \in DOMAIN AsciiUppercase : AsciiUppercase[i] = c

\* c.lower()
lower(c) ==
    IF IsAsciiUppercase(c)
    THEN AsciiLowercase[CHOOSE i \in DOMAIN AsciiUppercase :
                           AsciiUppercase[i] = c]
    ELSE c

\* The characters of a sequence joined into one text
RECURSIVE Join(_)
Join(chars) == IF chars = <<>> THEN "" ELSE Head(chars) \o Join(Tail(chars))

\* The loop of the conversion over name[1:]
RECURSIVE KebabRest(_)
KebabRest(chars) ==
    IF chars = <<>> THEN ""
    ELSE (IF IsAsciiUppercase(Head(chars))
          THEN "-" \o lower(Head(chars)) ELSE Head(chars))
         \o KebabRest(Tail(chars))

\* The conversion with the words joined by "_" and the first letter kept.
camel_case_to_snake_case(name) ==
    IF Len(name) < 1 THEN ""
    ELSE name[1] \o Join([k \in 1..(Len(name) - 1) |->
                            IF IsAsciiUppercase(name[k + 1])
                            THEN "_" \o lower(name[k + 1]) ELSE name[k + 1]])

\* _camel_case_to_kebab_case(name)
camel_case_to_kebab_case(name) ==
    IF Len(name) < 1 THEN Join(name)
    ELSE lower(name[1]) \o KebabRest(Tail(name))

\* cls.__name__ of the six classes register_subcommands lists, in its order
subcommand_handlers ==
    <<<<"A", "d", "d">>, <<"C", "o", "m", "p", "l", "e", "t", "e">>,
      <<"D", "e", "l", "e", "t", "e">>, <<"E", "d", "i", "t">>,
      <<"L", "i", "s", "t">>, <<"R", "e", "o", "p", "e", "n">>>>

\* Class names tried beside them: two words, an acronym, one letter
OtherHandlers ==
    {<<"D", "r", "y", "R", "u", "n">>, <<"H", "T", "T", "P", "d">>, <<"X">>}

HandlerNames ==
    {subcommand_handlers[k] : k \in DOMAIN subcommand_handlers}
    \cup OtherHandlers

\* The lists of handlers tried: the program's own, and every list of up to
\* MaxHandlers of the class names.
HandlerLists ==
    {subcommand_handlers}
    \cup UNION {[1..n -> HandlerNames] : n \in 0..MaxHandlers}

\* Subcommand.register: subcommand_registry[name] = cls
register(registry, cls) == (camel_case_to_kebab_case(cls) :> cls) @@ registry

InitRegister ==
    /\ tasks = <<>>
    /\ seq = 0
    /\ clock = 0
    /\ ever = {}
    /\ last = Outcome("none", 0, NoReq, None, "returned", <<>>, <<>>)
    /\ call \in {[fn |-> "register_subcommands", handlers |-> h, done |-> 0,
                   registry |-> <<>>] : h \in HandlerLists}

\* One turn of the loop of register_subcommands
Register ==
    /\ call.fn = "register_subcommands"
    /\ call.done < Len(call.handlers)
    /\ call' = [call EXCEPT
                   !.done = @ + 1,
                   !.registry = register(@, call.handlers[call.done + 1])]
    /\ UNCHANGED <<tasks, seq, clock, ever, last>>

\* main's look-up once the parser is set up: the parser only lets a
\* registered name through, and main takes subcommand_registry[name].
LookUp ==
    /\ call.fn = "register_subcommands"
    /\ call.done = Len(call.handlers)
    /\ \E name \in DOMAIN call.registry :
          call' = [fn |-> "dispatch", handlers |-> call.handlers,
                   registry |-> call.registry, name |-> name,
                   result |-> call.registry[name]]
    /\ UNCHANGED <<tasks, seq, clock, ever, last>>

NextRegister == Register \/ LookUp

\* register_subcommands on every list of handlers, then main's look-up of
\* every name registered.
SpecRegister == InitRegister /\ [][NextRegister]_vars

\* ================================================================ claims
\* The row the last invocation named, as the store holds it now.
LastRow == SelectById(tasks, last.id)

\* C1: Complete on an existing id leaves that task COMPLETED, whatever its
\* status was, with an updated_at not earlier than the one it had before.
C1_CompleteSetsCompleted ==
    (last.op = "complete" /\ last.prior # None) =>
        /\ last.outcome = "returned"
        /\ LastRow # None
        /\ LastRow[4] = COMPLETED
        /\ LastRow[6] >= last.prior[6]

\* C1 witness: a task that was already COMPLETED is completed again at a
\* later time, and its updated_at moved forward.
C1_Witness ==
    /\ last.op = "complete"
    /\ last.prior # None
    /\ last.prior[4] = COMPLETED
    /\ LastRow[4] = COMPLETED
    /\ LastRow[6] > last.prior[6]

\* C2: Reopen on an existing id leaves that task PENDING, whatever its status
\* was (so Complete then Reopen ends PENDING).
C2_ReopenSetsPending ==
    (last.op = "reopen" /\ last.prior # None) => LastRow[4] = PENDING

\* C3: Complete on an id no row has is handled: a message on stderr, nothing
\* on stdout, no row changed, and `run` returns normally.
C3_CompleteNotFoundHandled ==
    (last.op = "complete" /\ last.prior = None) =>
        /\ last.outcome = "returned"
        /\ last.stderr # <<>>
        /\ last.stdout = <<>>
        /\ LastRow = None

\* C4: Delete on an id no row has reports not-found on stderr, writes nothing
\* to stdout, and leaves the stored rows as they were.
C4_DeleteNotFound ==
    /\ [](last.op = "delete" /\ last.prior = None =>
            /\ last.outcome = "returned"
            /\ last.stderr = <<Msg("No task with ID found", last.id)>>
            /\ last.stdout = <<>>)
    /\ [][(last'.op = "delete" /\ last'.prior = None) => tasks' = tasks]_vars

\* C4 witness: Delete named an absent id while the store held a row.
C4_Witness ==
    /\ last.op = "delete"
    /\ last.prior = None
    /\ DOMAIN tasks # {}
    /\ last.id \notin DOMAIN tasks

\* C5: Delete on an existing id removes that row and no other, leaves every
\* other row as it was, writes the task as it was before the removal, and the
\* id never comes back: no later fetch finds it and no List shows it.
C5_DeleteRemovesOne ==
    /\ [][(last'.op = "delete" /\ last'.id \in DOMAIN tasks) =>
            /\ tasks' = [i \in DOMAIN tasks \ {last'.id} |-> tasks[i]]
            /\ last'.outcome = "returned"
            /\ last'.stdout =
                  <<as_dict(from_data(SelectById(tasks, last'.id)))>>]_vars
    /\ [][\A i \in ever \ DOMAIN tasks : i \notin DOMAIN tasks']_vars
    /\ [](last.op = "list" =>
            \A k \in 1..Len(last.stdout) :
               last.stdout[k].id \in DOMAIN tasks)

\* C5 witness: with two rows stored, Delete removed one and the other stayed.
C5_Witness ==
    /\ last.op = "delete"
    /\ last.prior # None
    /\ last.id \notin DOMAIN tasks
    /\ DOMAIN tasks # {}
    /\ last.stdout # <<>>

\* C6: the id a new task gets is the id of no task that was ever stored
\* before, deleted ones included.
C6_IdNeverReused ==
    [][\A i \in DOMAIN tasks' \ DOMAIN tasks : i \notin ever]_vars

\* C6 witness: a task was added after the task before it had been deleted.
C6_Witness ==
    /\ last.op = "add"
    /\ last.id \in DOMAIN tasks
    /\ \E i \in ever : i < last.id /\ i \notin DOMAIN tasks

\* C7: every stored task has updated_at >= created_at.
C7_UpdatedNotBeforeCreated ==
    \A i \in DOMAIN tasks : tasks[i].updated_at >= tasks[i].created_at

\* C7 witness: a task created at one time was completed at a later one.
C7_Witness ==
    /\ last.op = "complete"
    /\ last.prior # None
    /\ LastRow[6] > LastRow[5]

\* C8: right after Add, the row fetched under the assigned id has the id,
\* title, priority and status that were inserted, and updated_at = created_at.
C8_InsertThenFetch ==
    last.op = "add" =>
        /\ last.outcome = "returned"
        /\ LastRow # None
        /\ LET task == from_data(LastRow)
           IN /\ task.tag = "Task"
              /\ task.id = last.id
              /\ task.title = last.req.title
              /\ PriorityName(task.priority) = last.req.priority
              /\ StatusName(task.status) = last.req.status
              /\ task.updated_at = task.created_at
              /\ last.stdout = <<as_dict(task)>>

\* C8 witness: Add stored a HIGH, ACTIVE task after time had passed.
C8_Witness ==
    /\ last.op = "add"
    /\ last.req.priority = "HIGH"
    /\ last.req.status = "ACTIVE"
    /\ last.req.title = "milk"
    /\ LastRow # None
    /\ LastRow[5] > 0

\* The ids of the rows a List wrote, in the order written.
ListedIds == [k \in 1..Len(last.stdout) |-> last.stdout[k].id]

\* C9: List without --all returns exactly the stored tasks that are not
\* COMPLETED, with --all exactly all stored tasks, for every sort key and
\* direction.
C9_ListFilter ==
    last.op = "list" =>
        /\ {ListedIds[k] : k \in 1..Len(ListedIds)} =
              {i \in DOMAIN tasks :
                  last.req.show_all \/ tasks[i].status # COMPLETED}
        /\ \A j, k \in 1..Len(ListedIds) : j # k => ListedIds[j] # ListedIds[k]
        /\ \A k \in 1..Len(ListedIds) :
              last.stdout[k] = as_dict(from_data(SelectById(tasks, ListedIds[k])))

\* C9 witness: a List without --all, sorted by status in reverse, over a
\* store holding a COMPLETED task and one that is not.
C9_Witness ==
    /\ last.op = "list"
    /\ ~last.req.show_all
    /\ last.req.sort_by = "status"
    /\ last.req.reverse
    /\ Len(last.stdout) = 1
    /\ \E i \in DOMAIN tasks : tasks[i].status = COMPLETED

\* C10: List leaves the store as it was, for every sort key, direction,
\* format and filter.
C10_ListReadOnly ==
    [][last'.op = "list" => (tasks' = tasks /\ seq' = seq)]_vars

\* C10 witness: a List as JSON, with --all, by creation time, over a store
\* of two rows one of which is COMPLETED.
C10_Witness ==
    /\ last.op = "list"
    /\ last.req.as_json
    /\ last.req.show_all
    /\ last.req.sort_by = "created_at"
    /\ Len(last.stdout) = 2
    /\ \E i \in DOMAIN tasks : tasks[i].status = COMPLETED

\* The rowids other than the one the next invocation names.
C11_Others == {i \in DOMAIN tasks : i # last'.id}

\* C11: Complete and Reopen leave the id, title, priority and created_at of
\* the task they name as they were, and Add, Complete, Reopen and Delete leave
\* every row under another id as it was.
C11_Frame ==
    [][/\ (last'.op \in {"complete", "reopen"} /\ last'.id \in DOMAIN tasks) =>
            /\ last'.id \in DOMAIN tasks'
            /\ tasks'[last'.id].title = tasks[last'.id].title
            /\ tasks'[last'.id].priority = tasks[last'.id].priority
            /\ tasks'[last'.id].created_at = tasks[last'.id].created_at
       /\ last'.op \in {"add", "complete", "reopen", "delete"} =>
            \A i \in C11_Others :
               i \in DOMAIN tasks' /\ tasks'[i] = tasks[i]]_vars

\* C11 witness: Complete acted on a HIGH task that was not COMPLETED, at a
\* later time than its creation, while another row that is not COMPLETED
\* was stored.
C11_Witness ==
    /\ last.op = "complete"
    /\ last.prior # None
    /\ last.prior[3] = HIGH
    /\ last.prior[4] # COMPLETED
    /\ LastRow[6] > LastRow[5]
    /\ \E i \in DOMAIN tasks : i # last.id /\ tasks[i].status # COMPLETED

\* main rejected the command line: parse_args ended the process.
UsageFailure(c) == c.fn = "main" /\ parse_args(c.argv).error

\* C12: when the command line is malformed, lacks an argument or names an
\* unknown subcommand, main makes no store connection, runs no subcommand,
\* and the stored rows stay as they were.
C12_UsageBeforeStore ==
    /\ [](UsageFailure(call) =>
            /\ \A k \in DOMAIN call.stages :
                  call.stages[k] \notin {"connect", "run"}
            /\ last.op = "none")
    /\ [][UsageFailure(call') =>
            (tasks' = tasks /\ seq' = seq /\ ever' = ever)]_vars

\* C12 witness: `delete x`, whose id is not an integer, on a store that
\* holds a row, ended with argparse's status.
C12_Witness ==
    /\ call.fn = "main"
    /\ call.argv = <<"delete", "x">>
    /\ call.exit = ArgparseErrorStatus
    /\ DOMAIN tasks # {}

\* The subcommand main ran failed at its operation: the id it named is the
\* id of no row, or it refused a value as invalid.
OperationFailed ==
    \/ last.op \in {"complete", "delete", "edit"} /\ last.prior = None
    \/ last.op = "edit"
         /\ last.stderr = <<Msg("ValidationError: empty title", last.id)>>

\* C13: the process ends with 0 only on success: a usage error ends it with
\* USAGE, a failure of the operation (absent id, invalid value) is written to
\* stderr and ends it with a non-zero status, an exception with FAILURE.
C13_ZeroOnlyOnSuccess ==
    call.fn = "main" =>
        /\ parse_args(call.argv).error => call.exit = USAGE
        /\ (last.op # "none" /\ OperationFailed) =>
              (last.stderr # <<>> /\ call.exit # SUCCESS)
        /\ (last.op # "none" /\ last.outcome = "raised") => call.exit = FAILURE

\* C14: every stored task has a non-empty title: Add with an empty title is
\* refused and stores no row.
C14_TitleNonEmpty ==
    /\ \A i \in DOMAIN tasks : tasks[i].title # ""
    /\ (last.op = "add" /\ last.req.title = "") =>
          (last.stdout = <<>> /\ last.id \notin DOMAIN tasks)

\* C15: Task.from_data on a raw row gives a Task exactly when the priority
\* and the status integers are both in {0, 1, 2}; otherwise it raises (the
\* enum's ValueError), and the Task it gives carries the integers unchanged.
C15_FromDataRange ==
    call.fn = "from_data" =>
        /\ call.result.tag = "Task" <=>
              (call.data[3] \in {0, 1, 2} /\ call.data[4] \in {0, 1, 2})
        /\ call.result.tag # "Task" => call.result = [tag |-> "ValueError"]
        /\ call.result.tag = "Task" =>
              /\ call.result.priority = call.data[3]
              /\ call.result.status = call.data[4]

\* C15 witness: from_data was called on a row whose priority is 3 and whose
\* status is valid, and raised.
C15_Witness ==
    /\ call.fn = "from_data"
    /\ call.data[3] = 3
    /\ call.data[4] \in {0, 1, 2}
    /\ call.result.tag = "ValueError"

\* The table of display names with an initial capital only
C16_TitleCase ==
    [priority |-> <<"Low", "Medium", "High">>,
     status |-> <<"Pending", "Active", "Completed">>]

\* The table of the enum member names
C16_MemberNames ==
    [priority |-> <<"LOW", "MEDIUM", "HIGH">>,
     status |-> <<"PENDING", "ACTIVE", "COMPLETED">>]

ListedPriorities ==
    [k \in 1..Len(last.stdout) |-> PriorityByName(last.stdout[k].priority)]

\* C17: sorted by priority (the default key), List without --reverse writes
\* the tasks in non-increasing priority order, HIGH before MEDIUM before LOW,
\* and with --reverse in non-decreasing order, LOW first.
C17_PriorityOrder ==
    (last.op = "list" /\ last.req.sort_by = "priority") =>
        \A j, k \in 1..Len(ListedPriorities) :
           j < k => IF last.req.reverse
                    THEN ListedPriorities[j] <= ListedPriorities[k]
                    ELSE ListedPriorities[j] >= ListedPriorities[k]

\* C17 witness: a List by priority without --reverse wrote a HIGH task and
\* then a LOW task, the LOW one stored under the smaller id.
C17_Witness ==
    /\ last.op = "list"
    /\ last.req.sort_by = "priority"
    /\ ~last.req.reverse
    /\ Len(last.stdout) = 2
    /\ ListedPriorities = <<HIGH, LOW>>
    /\ ListedIds[2] < ListedIds[1]

\* The key k is in the environment after the call as it was before it.
C18_Kept(k) ==
    /\ k \in DOMAIN call.result.env <=> k \in DOMAIN call.env
    /\ k \in DOMAIN call.env => call.result.env[k] = call.env[k]

\* The document has the [project] table with both name and version.
C18_Complete ==
    /\ "project" \in DOMAIN call.data
    /\ {"name", "version"} \subseteq DOMAIN call.data["project"]

\* C18: pyproject_update_env(data, env) sets env["PYPROJECT_NAME"] to the
\* project's name and env["PYPROJECT_VERSION"] to its version and leaves
\* every other key as it was; when data lacks [project], name or version it
\* raises KeyError and has not set both keys.
C18_UpdateEnv ==
    call.fn = "pyproject_update_env" =>
        /\ \A k \in (DOMAIN call.env \cup DOMAIN call.result.env)
                    \ {"PYPROJECT_NAME", "PYPROJECT_VERSION"} : C18_Kept(k)
        /\ C18_Complete <=> call.result.raised = "none"
        /\ C18_Complete =>
              /\ call.result.env["PYPROJECT_NAME"] = call.data["project"]["name"]
              /\ call.result.env["PYPROJECT_VERSION"] =
                    call.data["project"]["version"]
        /\ ~C18_Complete =>
              /\ call.result.raised = "KeyError"
              /\ C18_Kept("PYPROJECT_NAME") \/ C18_Kept("PYPROJECT_VERSION")

\* C18 witness: a document with name "foo" and no version, on an environment
\* that held HOME and an old PYPROJECT_VERSION: KeyError, the name set, the
\* other two keys as they were.
C18_Witness ==
    /\ call.fn = "pyproject_update_env"
    /\ call.data = [k \in {"project"} |-> [j \in {"name"} |-> "foo"]]
    /\ DOMAIN call.env = {"HOME", "PYPROJECT_VERSION"}
    /\ call.result.raised = "KeyError"
    /\ call.result.env["PYPROJECT_NAME"] = "foo"
    /\ call.result.env["PYPROJECT_VERSION"] = "old"
    /\ call.result.env["HOME"] = "old"

\* The place a task has among the tasks that tie with it: 1 for a HIGH task
\* that is not COMPLETED, 3 for a COMPLETED task, 2 for the rest.
C19_Place(i) ==
    IF tasks[i].status = COMPLETED THEN 3
    ELSE IF tasks[i].priority = HIGH THEN 1 ELSE 2

\* C19: among the tasks that tie on the sort key, List writes the HIGH tasks
\* that are not COMPLETED first and the COMPLETED tasks last, for every sort
\* key and in both directions.
C19_TieOrder ==
    last.op = "list" =>
        \A j, k \in 1..Len(ListedIds) :
           (/\ j < k
            /\ SortColumn(last.req.sort_by, ListedIds[j], tasks[ListedIds[j]])
                  = SortColumn(last.req.sort_by, ListedIds[k],
                               tasks[ListedIds[k]]))
           => C19_Place(ListedIds[j]) <= C19_Place(ListedIds[k])

\* C20: in the rendered table each column is as wide as the longest of its
\* header and its cells (Title: the longest of "Title" and the titles, 5
\* with no rows), so all lines of the table have the same length, also
\* when an id has more digits than the number of rows has.
C20_TableAligned ==
    call.fn = "render_table" =>
        /\ width_title(call.tasks) =
              Max({Len("Title")} \cup
                  {Len(call.tasks[k].title) : k \in 1..Len(call.tasks)})
        /\ width_id(call.tasks) =
              Max({Len("ID")} \cup
                  {Len(ToString(call.tasks[k].id)) : k \in 1..Len(call.tasks)})
        /\ \A j, k \in 1..Len(call.result) :
              Len(call.result[j]) = Len(call.result[k])

\* The classes registered so far
C21_Registered == {call.handlers[k] : k \in 1..call.done}

\* The registration of the program's own six classes is complete.
C21_ProgramRegistered ==
    /\ call.fn = "register_subcommands"
    /\ call.handlers = subcommand_handlers
    /\ call.done = Len(call.handlers)

\* C21: every registered class is in the registry under the kebab-case form
\* of its name; once the program's six classes are registered the registry
\* holds exactly add, complete, delete, edit, list and reopen, each mapped to
\* its class; and main's look-up of a name gives the class registered under
\* that name.
C21_RegistryNames ==
    /\ call.fn = "register_subcommands" =>
          /\ DOMAIN call.registry =
                {camel_case_to_kebab_case(cls) : cls \in C21_Registered}
          /\ \A name \in DOMAIN call.registry :
                camel_case_to_kebab_case(call.registry[name]) = name
    /\ C21_ProgramRegistered =>
          /\ DOMAIN call.registry =
                {"add", "complete", "delete", "edit", "list", "reopen"}
          /\ DOMAIN call.registry = subcommand_registry
          /\ call.registry["add"] = <<"A", "d", "d">>
          /\ call.registry["complete"] = subcommand_handlers[2]
          /\ call.registry["delete"] = subcommand_handlers[3]
          /\ call.registry["edit"] = subcommand_handlers[4]
          /\ call.registry["list"] = subcommand_handlers[5]
          /\ call.registry["reopen"] = subcommand_handlers[6]
    /\ call.fn = "dispatch" =>
          /\ call.result = call.registry[call.name]
          /\ camel_case_to_kebab_case(call.result) = call.name
          /\ \E k \in DOMAIN call.handlers : call.handlers[k] = call.result
    /\ camel_case_to_kebab_case(<<"D", "r", "y", "R", "u", "n">>) = "dry-run"
    /\ camel_case_to_kebab_case(<<"H", "T", "T", "P", "d">>) = "h-t-t-pd"
    /\ camel_case_to_kebab_case(<<>>) = ""

\* C21 witness: with the program's six classes registered, main looked up
\* "reopen" and got the class Reopen.
C21_Witness ==
    /\ call.fn = "dispatch"
    /\ call.handlers = subcommand_handlers
    /\ call.name = "reopen"
    /\ call.result = <<"R", "e", "o", "p", "e", "n">>

====
